---- MODULE Spec2Model ----
(***************************************************************************)
(* Model of the Kando editor sidebar, src/renderer/editor/sidebar/         *)
(* sidebar.ts: the visibility controller (setVisibility, initVisibility)   *)
(* and the playback of the introduction videos (initIntroductionVideos).   *)
(*                                                                         *)
(* The renderer is single threaded: an event handler runs to completion    *)
(* before the next event is dispatched.  Handlers are modelled statement   *)
(* by statement, pc naming the statement that runs next; a new event is    *)
(* dispatched only while pc = "idle".                                      *)
(***************************************************************************)
EXTENDS Integers, Sequences, FiniteSets

VARIABLES
    pc,               \* the statement of the running handler, "idle" between handlers
    visible,          \* Sidebar.visible
    sidebarArea,      \* #kando-editor-sidebar-area has class "visible"
    hideButton,       \* #hide-sidebar-button has class "visible"
    showButton,       \* #show-sidebar-button has class "visible"
    visibleArg,       \* the parameter of the running setVisibility call
    stored,           \* app settings: the value of the key sidebarVisible
    pending,          \* change notifications on their way to the onChange handler
    fetchState,       \* the getKey promise: "issued", "replied" or "done"
    fetchValue,       \* the value the getKey promise resolves with
    lastCall,         \* record of the latest setVisibility call (observation only)
    videos,           \* Sidebar.videos: videos[i] is TRUE once index i holds an element
    lastVisibleVideo, \* Sidebar.lastVisibleVideo
    initListener,     \* the once-listener of show.bs.collapse is still registered
    loopIndex,        \* the variable i of the loop in the show.bs.collapse listener
    to,               \* e.to of the running slide.bs.carousel listener
    hasSrc,           \* per video element: src has been assigned
    loop,             \* per video element: the loop attribute
    playing,          \* per video element: not paused
    currentTime,      \* per video element: the playback position
    resolutions,      \* per video element: how often it has been bound (observation only)
    showDispatched,   \* show.bs.collapse has been dispatched (observation only)
    tab,              \* the introduction tab: "hidden", "showing" or "shown"
    steps             \* the statements the latest playback handler ran (observation only)

visVars == <<visible, sidebarArea, hideButton, showButton, visibleArg, stored,
             pending, fetchState, fetchValue, lastCall>>
vidVars == <<videos, lastVisibleVideo, initListener, loopIndex, to, hasSrc, loop,
             playing, currentTime, resolutions, showDispatched, tab, steps>>
vars == <<pc, visVars, vidVars>>

\* Bounds of the model.
MaxPending == 2
ClipLength == 2

\* The number of introduction videos.
NumVideos == 5

Clips == 0 .. (NumVideos - 1)

\* A JavaScript value that reaches setVisibility: a boolean, or undefined when
\* the key is absent from the settings.
Value == {"true", "false", "undefined"}
Bool == {"true", "false"}

\* if (visible): only true is truthy among the values above.
Truthy(v) == v = "true"

\* this.visible !== visible
StrictNotEqual(a, b) == a # b

\* The classes the template gives the three elements before any script runs.
InitialMarkup == [area |-> TRUE, hide |-> TRUE, show |-> FALSE]

\* lastCall before any call of setVisibility.
NoCall == [made |-> FALSE, arg |-> "undefined", was |-> "undefined",
           toggles |-> 0, assigns |-> 0, written |-> <<>>]

Init ==
    /\ pc = "idle"
    /\ visible = "true"
    /\ sidebarArea = InitialMarkup.area
    /\ hideButton = InitialMarkup.hide
    /\ showButton = InitialMarkup.show
    /\ visibleArg = "undefined"
    /\ stored \in Value
    /\ pending = <<>>
    /\ fetchState = "issued"
    /\ fetchValue = "undefined"
    /\ lastCall = NoCall
    /\ videos = [i \in Clips |-> FALSE]
    /\ lastVisibleVideo = 0
    /\ initListener = TRUE
    /\ loopIndex = 0
    /\ to = 0
    /\ hasSrc = [i \in Clips |-> FALSE]
    /\ loop = [i \in Clips |-> FALSE]
    /\ playing = [i \in Clips |-> FALSE]
    /\ currentTime = [i \in Clips |-> 0]
    /\ resolutions = [i \in Clips |-> 0]
    /\ showDispatched = FALSE
    /\ tab = "hidden"
    /\ steps = <<>>

(***************************************************************************)
(* The app settings (window.api.appSettings).                              *)
(***************************************************************************)

\* setKey('sidebarVisible', v): the value is stored; the store may notify the
\* onChange subscribers of the key, the writer included.
SetKey(v) ==
    /\ stored' = v
    /\ \/ pending' = Append(pending, v)
       \/ pending' = pending

\* The key is changed from somewhere else: the subscriber is notified.
ExternalChange ==
    /\ pc = "idle"
    /\ Len(pending) < MaxPending
    /\ \E v \in Bool :
          /\ v # stored
          /\ stored' = v
          /\ pending' = Append(pending, v)
    /\ UNCHANGED <<pc, visible, sidebarArea, hideButton, showButton, visibleArg,
                   fetchState, fetchValue, lastCall, vidVars>>

\* The main process answers getKey('sidebarVisible') with the stored value.
FetchReply ==
    /\ pc = "idle"
    /\ fetchState = "issued"
    /\ fetchState' = "replied"
    /\ fetchValue' = stored
    /\ UNCHANGED <<pc, visible, sidebarArea, hideButton, showButton, visibleArg,
                   stored, pending, lastCall, vidVars>>

(***************************************************************************)
(* Sidebar.setVisibility                                                   *)
(***************************************************************************)

\* Mutant of EnterSetVisibility: the test of line 61 is missing.
EnterSetVisibilityUnguarded(v) ==
    /\ visibleArg' = v
    /\ lastCall' = [made |-> TRUE, arg |-> v, was |-> visible,
                    toggles |-> 0, assigns |-> 0, written |-> <<>>]
    /\ pc' = "sv_area"

\* The call setVisibility(v) up to and including the test of line 61.
EnterSetVisibility(v) ==
    /\ visibleArg' = v
    /\ lastCall' = [made |-> TRUE, arg |-> v, was |-> visible,
                    toggles |-> 0, assigns |-> 0, written |-> <<>>]
    /\ pc' = IF StrictNotEqual(visible, v) THEN "sv_area" ELSE "idle"

\* classList.add / classList.remove on #kando-editor-sidebar-area.
SetAreaClass ==
    /\ pc = "sv_area"
    /\ sidebarArea' = Truthy(visibleArg)
    /\ lastCall' = [lastCall EXCEPT !.toggles = @ + 1]
    /\ pc' = "sv_hide"
    /\ UNCHANGED <<visible, hideButton, showButton, visibleArg, stored, pending,
                   fetchState, fetchValue, vidVars>>

\* classList.add / classList.remove on #hide-sidebar-button.
SetHideButtonClass ==
    /\ pc = "sv_hide"
    /\ hideButton' = Truthy(visibleArg)
    /\ lastCall' = [lastCall EXCEPT !.toggles = @ + 1]
    /\ pc' = "sv_show"
    /\ UNCHANGED <<visible, sidebarArea, showButton, visibleArg, stored, pending,
                   fetchState, fetchValue, vidVars>>

\* Mutant of SetShowButtonClass: the show button is treated like the hide button.
SetShowButtonClassSame ==
    /\ pc = "sv_show"
    /\ showButton' = Truthy(visibleArg)
    /\ lastCall' = [lastCall EXCEPT !.toggles = @ + 1]
    /\ pc' = "sv_assign"
    /\ UNCHANGED <<visible, sidebarArea, hideButton, visibleArg, stored, pending,
                   fetchState, fetchValue, vidVars>>

\* classList.remove / classList.add on #show-sidebar-button.
SetShowButtonClass ==
    /\ pc = "sv_show"
    /\ showButton' = ~Truthy(visibleArg)
    /\ lastCall' = [lastCall EXCEPT !.toggles = @ + 1]
    /\ pc' = "sv_assign"
    /\ UNCHANGED <<visible, sidebarArea, hideButton, visibleArg, stored, pending,
                   fetchState, fetchValue, vidVars>>

\* Mutant of AssignVisible: this.visible is not updated.
AssignVisibleSkipped ==
    /\ pc = "sv_assign"
    /\ lastCall' = [lastCall EXCEPT !.assigns = @ + 1]
    /\ pc' = "sv_setKey"
    /\ UNCHANGED <<visible, sidebarArea, hideButton, showButton, visibleArg, stored,
                   pending, fetchState, fetchValue, vidVars>>

\* this.visible = visible
AssignVisible ==
    /\ pc = "sv_assign"
    /\ visible' = visibleArg
    /\ lastCall' = [lastCall EXCEPT !.assigns = @ + 1]
    /\ pc' = "sv_setKey"
    /\ UNCHANGED <<sidebarArea, hideButton, showButton, visibleArg, stored, pending,
                   fetchState, fetchValue, vidVars>>

\* Mutant of WriteSetting: the previous value of this.visible is written.
WriteSettingOld ==
    /\ pc = "sv_setKey"
    /\ SetKey(lastCall.was)
    /\ lastCall' = [lastCall EXCEPT !.written = Append(@, lastCall.was)]
    /\ pc' = "idle"
    /\ UNCHANGED <<visible, sidebarArea, hideButton, showButton, visibleArg,
                   fetchState, fetchValue, vidVars>>

\* Mutant of WriteSetting: the call returns without setKey.
WriteSettingDropped ==
    /\ pc = "sv_setKey"
    /\ pc' = "idle"
    /\ UNCHANGED <<visible, sidebarArea, hideButton, showButton, visibleArg, stored,
                   pending, fetchState, fetchValue, lastCall, vidVars>>

\* window.api.appSettings.setKey('sidebarVisible', visible), then return.
WriteSetting ==
    /\ pc = "sv_setKey"
    /\ SetKey(visibleArg)
    /\ lastCall' = [lastCall EXCEPT !.written = Append(@, visibleArg)]
    /\ pc' = "idle"
    /\ UNCHANGED <<visible, sidebarArea, hideButton, showButton, visibleArg,
                   fetchState, fetchValue, vidVars>>

(***************************************************************************)
(* Sidebar.initVisibility: the events that call setVisibility.             *)
(***************************************************************************)

\* A click on #show-sidebar-button.
ClickShow ==
    /\ pc = "idle"
    /\ Len(pending) < MaxPending
    /\ EnterSetVisibility("true")
    /\ UNCHANGED <<visible, sidebarArea, hideButton, showButton, stored, pending,
                   fetchState, fetchValue, vidVars>>

\* A click on #hide-sidebar-button.
ClickHide ==
    /\ pc = "idle"
    /\ Len(pending) < MaxPending
    /\ EnterSetVisibility("false")
    /\ UNCHANGED <<visible, sidebarArea, hideButton, showButton, stored, pending,
                   fetchState, fetchValue, vidVars>>

\* The onChange handler of sidebarVisible receives the oldest notification.
OnChange ==
    /\ pc = "idle"
    /\ pending # <<>>
    /\ pending' = Tail(pending)
    /\ EnterSetVisibility(Head(pending))
    /\ UNCHANGED <<visible, sidebarArea, hideButton, showButton, stored,
                   fetchState, fetchValue, vidVars>>

\* The then-callback of getKey('sidebarVisible') runs.
FetchResolved ==
    /\ pc = "idle"
    /\ fetchState = "replied"
    /\ Len(pending) < MaxPending
    /\ fetchState' = "done"
    /\ EnterSetVisibility(fetchValue)
    /\ UNCHANGED <<visible, sidebarArea, hideButton, showButton, stored, pending,
                   fetchValue, vidVars>>

NextVisibility ==
    \/ ClickShow
    \/ ClickHide
    \/ OnChange
    \/ FetchReply
    \/ FetchResolved
    \/ ExternalChange
    \/ SetAreaClass
    \/ SetHideButtonClass
    \/ SetShowButtonClass
    \/ AssignVisible
    \/ WriteSetting

SpecVisibility == Init /\ [][NextVisibility]_vars

(***************************************************************************)
(* Sidebar.initIntroductionVideos: the four listeners.                     *)
(***************************************************************************)

\* An entry of steps: the statement, the video it acts on, and that video's
\* position and playing state before the statement.
Step(op, clip) == [op |-> op, clip |-> clip, at |-> currentTime[clip],
                   on |-> playing[clip]]

\* Reading a property of videos[i] while index i holds no element.
TypeError == <<Step("TypeError", lastVisibleVideo)>>

\* Mutant of RegisteredAfterInvoke: the option { once: true } is missing.
RegisteredAfterInvokeNotOnce == TRUE

\* { once: true }: the listener is removed when it is first invoked.
RegisteredAfterInvoke == FALSE

\* show.bs.collapse is dispatched (a hidden tab starts to open); the listener,
\* if still registered, starts its loop with i = 0.
ShowCollapse ==
    /\ pc = "idle"
    /\ steps' = <<>>
    /\ showDispatched' = TRUE
    /\ tab' = IF tab = "hidden" THEN "showing" ELSE tab
    /\ IF initListener
       THEN /\ initListener' = RegisteredAfterInvoke
            /\ loopIndex' = 0
            /\ pc' = "init_loop"
       ELSE UNCHANGED <<initListener, loopIndex, pc>>
    /\ UNCHANGED <<visVars, videos, lastVisibleVideo, to, hasSrc, loop, playing,
                   currentTime, resolutions>>

\* Mutant of ResolveVideo: the loop stops one video short.
ResolveVideoOneShort ==
    /\ pc = "init_loop"
    /\ IF loopIndex < NumVideos - 1
       THEN /\ videos' = [videos EXCEPT ![loopIndex] = TRUE]
            /\ hasSrc' = [hasSrc EXCEPT ![loopIndex] = TRUE]
            /\ playing' = [playing EXCEPT ![loopIndex] = FALSE]
            /\ currentTime' = [currentTime EXCEPT ![loopIndex] = 0]
            /\ loop' = [loop EXCEPT ![loopIndex] = TRUE]
            /\ resolutions' = [resolutions EXCEPT ![loopIndex] = @ + 1]
            /\ loopIndex' = loopIndex + 1
            /\ pc' = pc
       ELSE /\ loopIndex' = 0
            /\ pc' = "idle"
            /\ UNCHANGED <<videos, hasSrc, playing, currentTime, loop, resolutions>>
    /\ UNCHANGED <<visVars, lastVisibleVideo, initListener, to, showDispatched, tab, steps>>

\* One pass of for (let i = 0; i < 5; ++i): the element is bound to
\* videos[i], its src is assigned (the element loads the new source: it is
\* paused at position 0) and loop is set.
ResolveVideo ==
    /\ pc = "init_loop"
    /\ IF loopIndex < NumVideos
       THEN /\ videos' = [videos EXCEPT ![loopIndex] = TRUE]
            /\ hasSrc' = [hasSrc EXCEPT ![loopIndex] = TRUE]
            /\ playing' = [playing EXCEPT ![loopIndex] = FALSE]
            /\ currentTime' = [currentTime EXCEPT ![loopIndex] = 0]
            /\ loop' = [loop EXCEPT ![loopIndex] = TRUE]
            /\ resolutions' = [resolutions EXCEPT ![loopIndex] = @ + 1]
            /\ loopIndex' = loopIndex + 1
            /\ pc' = pc
       ELSE /\ loopIndex' = 0
            /\ pc' = "idle"
            /\ UNCHANGED <<videos, hasSrc, playing, currentTime, loop, resolutions>>
    /\ UNCHANGED <<visVars, lastVisibleVideo, initListener, to, showDispatched, tab, steps>>

\* Mutant of ShownCollapse: the position is not reset, playback resumes.
ShownCollapseResume ==
    /\ pc = "idle"
    /\ tab' = "shown"
    /\ IF videos[lastVisibleVideo]
       THEN /\ steps' = <<Step("currentTime = 0", lastVisibleVideo)>>
            /\ pc' = "shown_play"
       ELSE /\ steps' = TypeError
            /\ UNCHANGED pc
    /\ UNCHANGED <<visVars, videos, lastVisibleVideo, initListener, loopIndex, to,
                   hasSrc, loop, playing, currentTime, resolutions, showDispatched>>

\* shown.bs.collapse: this.videos[this.lastVisibleVideo].currentTime = 0
ShownCollapse ==
    /\ pc = "idle"
    /\ tab' = "shown"
    /\ IF videos[lastVisibleVideo]
       THEN /\ currentTime' = [currentTime EXCEPT ![lastVisibleVideo] = 0]
            /\ steps' = <<Step("currentTime = 0", lastVisibleVideo)>>
            /\ pc' = "shown_play"
       ELSE /\ steps' = TypeError
            /\ UNCHANGED <<currentTime, pc>>
    /\ UNCHANGED <<visVars, videos, lastVisibleVideo, initListener, loopIndex, to,
                   hasSrc, loop, playing, resolutions, showDispatched>>

\* Mutant of ShownPlay: the first video is played, whatever the last visible
\* one is.
ShownPlayFirst ==
    /\ pc = "shown_play"
    /\ playing' = [playing EXCEPT ![0] = TRUE]
    /\ steps' = Append(steps, Step("play", 0))
    /\ pc' = "idle"
    /\ UNCHANGED <<visVars, videos, lastVisibleVideo, initListener, loopIndex, to,
                   hasSrc, loop, currentTime, resolutions, showDispatched, tab>>

\* shown.bs.collapse: this.videos[this.lastVisibleVideo].play()
ShownPlay ==
    /\ pc = "shown_play"
    /\ playing' = [playing EXCEPT ![lastVisibleVideo] = TRUE]
    /\ steps' = Append(steps, Step("play", lastVisibleVideo))
    /\ pc' = "idle"
    /\ UNCHANGED <<visVars, videos, lastVisibleVideo, initListener, loopIndex, to,
                   hasSrc, loop, currentTime, resolutions, showDispatched, tab>>

\* hidden.bs.collapse: this.videos[this.lastVisibleVideo].pause()
HiddenCollapse ==
    /\ pc = "idle"
    /\ tab' = "hidden"
    /\ IF videos[lastVisibleVideo]
       THEN /\ playing' = [playing EXCEPT ![lastVisibleVideo] = FALSE]
            /\ steps' = <<Step("pause", lastVisibleVideo)>>
       ELSE /\ steps' = TypeError
            /\ UNCHANGED playing
    /\ UNCHANGED <<pc, visVars, videos, lastVisibleVideo, initListener, loopIndex,
                   to, hasSrc, loop, currentTime, resolutions, showDispatched>>

\* Mutant of SlideCarousel: the last visible video is not paused.
SlideCarouselNoPause(k) ==
    /\ pc = "idle"
    /\ to' = k
    /\ IF videos[lastVisibleVideo]
       THEN /\ steps' = <<Step("pause", lastVisibleVideo)>>
            /\ pc' = "slide_reset"
       ELSE /\ steps' = TypeError
            /\ UNCHANGED pc
    /\ UNCHANGED <<visVars, videos, lastVisibleVideo, initListener, loopIndex,
                   hasSrc, loop, playing, currentTime, resolutions, showDispatched,
                   tab>>

\* slide.bs.carousel with e.to = k: this.videos[this.lastVisibleVideo].pause()
SlideCarousel(k) ==
    /\ pc = "idle"
    /\ to' = k
    /\ IF videos[lastVisibleVideo]
       THEN /\ playing' = [playing EXCEPT ![lastVisibleVideo] = FALSE]
            /\ steps' = <<Step("pause", lastVisibleVideo)>>
            /\ pc' = "slide_reset"
       ELSE /\ steps' = TypeError
            /\ UNCHANGED <<playing, pc>>
    /\ UNCHANGED <<visVars, videos, lastVisibleVideo, initListener, loopIndex,
                   hasSrc, loop, currentTime, resolutions, showDispatched, tab>>

\* Mutant of SlideReset: the position of the last visible video is reset.
SlideResetLast ==
    /\ pc = "slide_reset"
    /\ currentTime' = [currentTime EXCEPT ![lastVisibleVideo] = 0]
    /\ steps' = Append(steps, Step("currentTime = 0", to))
    /\ pc' = "slide_play"
    /\ UNCHANGED <<visVars, videos, lastVisibleVideo, initListener, loopIndex, to,
                   hasSrc, loop, playing, resolutions, showDispatched, tab>>

\* slide.bs.carousel: this.videos[e.to].currentTime = 0
SlideReset ==
    /\ pc = "slide_reset"
    /\ IF videos[to]
       THEN /\ currentTime' = [currentTime EXCEPT ![to] = 0]
            /\ steps' = Append(steps, Step("currentTime = 0", to))
            /\ pc' = "slide_play"
       ELSE /\ steps' = Append(steps, Step("TypeError", to))
            /\ pc' = "idle"
            /\ UNCHANGED currentTime
    /\ UNCHANGED <<visVars, videos, lastVisibleVideo, initListener, loopIndex, to,
                   hasSrc, loop, playing, resolutions, showDispatched, tab>>

\* slide.bs.carousel: this.videos[e.to].play()
SlidePlay ==
    /\ pc = "slide_play"
    /\ playing' = [playing EXCEPT ![to] = TRUE]
    /\ steps' = Append(steps, Step("play", to))
    /\ pc' = "slide_last"
    /\ UNCHANGED <<visVars, videos, lastVisibleVideo, initListener, loopIndex, to,
                   hasSrc, loop, currentTime, resolutions, showDispatched, tab>>

\* Mutant of SlideSetLast: lastVisibleVideo is not updated.
SlideSetLastSkipped ==
    /\ pc = "slide_last"
    /\ steps' = Append(steps, Step("lastVisibleVideo =", to))
    /\ pc' = "idle"
    /\ UNCHANGED <<visVars, videos, lastVisibleVideo, initListener, loopIndex, to,
                   hasSrc, loop, playing, currentTime, resolutions, showDispatched,
                   tab>>

\* slide.bs.carousel: this.lastVisibleVideo = e.to
SlideSetLast ==
    /\ pc = "slide_last"
    /\ lastVisibleVideo' = to
    /\ steps' = Append(steps, Step("lastVisibleVideo =", to))
    /\ pc' = "idle"
    /\ UNCHANGED <<visVars, videos, initListener, loopIndex, to, hasSrc, loop,
                   playing, currentTime, resolutions, showDispatched, tab>>

\* Time passes between two handlers: the position of a playing video moves
\* on, and a looping video starts over at its end.
Tick ==
    /\ pc = "idle"
    /\ \E i \in Clips :
          /\ playing[i]
          /\ currentTime' = [currentTime EXCEPT ![i] =
                 IF @ + 1 < ClipLength THEN @ + 1
                 ELSE IF loop[i] THEN 0 ELSE @]
    /\ UNCHANGED <<pc, visVars, videos, lastVisibleVideo, initListener, loopIndex,
                   to, hasSrc, loop, playing, resolutions, showDispatched, tab, steps>>

NextVideos ==
    \/ ShowCollapse
    \/ ResolveVideo
    \/ ShownCollapse
    \/ ShownPlay
    \/ HiddenCollapse
    \/ \E k \in Clips : SlideCarousel(k)
    \/ SlideReset
    \/ SlidePlay
    \/ SlideSetLast
    \/ Tick

SpecVideos == Init /\ [][NextVideos]_vars

Next == NextVisibility \/ NextVideos

Spec == Init /\ [][Next]_vars

\* The visibility controller and the listeners of the introduction tab on
\* one panel, without the passing of playback time.
NextPanel ==
    \/ NextVisibility
    \/ ShowCollapse
    \/ ResolveVideo
    \/ ShownCollapse
    \/ ShownPlay
    \/ HiddenCollapse
    \/ \E k \in Clips : SlideCarousel(k)
    \/ SlideReset
    \/ SlidePlay
    \/ SlideSetLast

SpecPanel == Init /\ [][NextPanel]_vars

(***************************************************************************)
(* The events as the collapse and the carousel of the introduction tab     *)
(* dispatch them: shown.bs.collapse ends an opening that show.bs.collapse  *)
(* began, and the carousel slides only once the tab has been revealed.     *)
(***************************************************************************)

\* shown.bs.collapse at the end of the opening of the tab.
TabShown == tab = "showing" /\ ShownCollapse

\* slide.bs.carousel of the carousel inside the tab, with e.to = k.
CarouselSlide(k) == showDispatched /\ SlideCarousel(k)

NextTab ==
    \/ ShowCollapse
    \/ ResolveVideo
    \/ TabShown
    \/ ShownPlay
    \/ HiddenCollapse
    \/ \E k \in Clips : CarouselSlide(k)
    \/ SlideReset
    \/ SlidePlay
    \/ SlideSetLast
    \/ Tick

SpecTab == Init /\ [][NextTab]_vars

(***************************************************************************)
(* The visibility controller with a store that notifies the panel of each  *)
(* of its own writes, asynchronously: the clicks, the initial fetch and    *)
(* the notifications.  The event loop delivers a pending notification and  *)
(* runs a handler to its end; the fetch may stay unanswered.               *)
(***************************************************************************)

\* setKey('sidebarVisible', visible) when every write is notified, then return.
WriteSettingNotified ==
    /\ pc = "sv_setKey"
    /\ stored' = visibleArg
    /\ pending' = Append(pending, visibleArg)
    /\ lastCall' = [lastCall EXCEPT !.written = Append(@, visibleArg)]
    /\ pc' = "idle"
    /\ UNCHANGED <<visible, sidebarArea, hideButton, showButton, visibleArg,
                   fetchState, fetchValue, vidVars>>

\* The statements of setVisibility after the test of line 61.
RunSetVisibility ==
    \/ SetAreaClass
    \/ SetHideButtonClass
    \/ SetShowButtonClass
    \/ AssignVisible
    \/ WriteSettingNotified

NextNotify ==
    \/ ClickShow
    \/ ClickHide
    \/ FetchReply
    \/ FetchResolved
    \/ OnChange
    \/ RunSetVisibility

SpecNotify ==
    /\ Init
    /\ [][NextNotify]_vars
    /\ WF_vars(OnChange)
    /\ WF_vars(RunSetVisibility)

(***************************************************************************)
(* Properties.                                                             *)
(***************************************************************************)

Playing == {i \in Clips : playing[i]}

\* C1: in every reachable state, the states between the statements of one
\* listener included, at most one of the videos is playing.
AtMostOnePlaying == Cardinality(Playing) <= 1

\* Witness of C1: inside the slide listener, after play() on the new video and
\* before lastVisibleVideo is updated, the new video plays and the last
\* visible one, which was playing when the event came, does not.
SlidePlayedBeforeUpdate ==
    /\ pc = "slide_last"
    /\ to # lastVisibleVideo
    /\ steps[1].on
    /\ Playing = {to}

\* A setVisibility call is not running.
Returned == pc \notin {"sv_area", "sv_hide", "sv_show", "sv_assign", "sv_setKey"}

\* C2 as stated: between handlers the area and the hide button carry the class
\* "visible" iff this.visible is true, the show button iff this.visible is false.
ViewMatchesVisibility ==
    Returned =>
        /\ sidebarArea <=> (visible = "true")
        /\ hideButton <=> (visible = "true")
        /\ showButton <=> (visible = "false")

\* The step on which a setVisibility call returns: the setKey statement, or
\* the test of line 61 when it fails.
ReturnsFromSetVisibility ==
    /\ pc' = "idle"
    /\ \/ pc = "sv_setKey"
       \/ pc = "idle" /\ lastCall' # lastCall

\* C3 as stated: whenever setVisibility(v) returns, for a boolean v, the
\* persisted key sidebarVisible is v.
RoundTripAlways ==
    [][ReturnsFromSetVisibility /\ lastCall'.arg \in Bool
          => stored' = lastCall'.arg]_vars

\* C3 amended: when setVisibility(v) returns, the persisted key is v provided
\* v differed from this.visible when the call was made or the persisted key
\* equalled this.visible then; a call with v equal to this.visible leaves the
\* persisted key as it was.
RoundTripWhenChangedOrInSync ==
    [][ReturnsFromSetVisibility =>
          /\ (lastCall'.arg # lastCall'.was \/ stored = visible)
                => stored' = lastCall'.arg
          /\ lastCall'.arg = lastCall'.was => stored' = stored]_vars

\* Witness of C3: before the fetch has resolved, with the settings holding
\* true, setVisibility(false) has returned and the settings hold false.
WroteFalseBeforeFetch ==
    /\ pc = "idle"
    /\ fetchState = "issued"
    /\ lastCall.made /\ lastCall.arg = "false" /\ lastCall.was = "true"
    /\ lastCall.written = <<"false">>
    /\ stored = "false"

\* C4: a call whose argument equals this.visible returns at once: no class is
\* toggled, this.visible is not assigned, setKey is not called and no
\* notification is issued; and after any call this.visible is the argument,
\* so that a second call with the same value is such a call.
SetVisibilityIdempotent ==
    /\ [](lastCall.made /\ lastCall.arg = lastCall.was =>
             /\ Returned
             /\ lastCall.toggles = 0
             /\ lastCall.assigns = 0
             /\ lastCall.written = <<>>)
    /\ [](lastCall.made /\ Returned => visible = lastCall.arg)
    /\ [][pc = "idle" /\ lastCall' # lastCall /\ lastCall'.arg = lastCall'.was =>
             /\ pc' = "idle"
             /\ UNCHANGED <<visible, sidebarArea, hideButton, showButton, stored>>
             /\ \/ pending' = pending
                \/ pending # <<>> /\ pending' = Tail(pending)]_vars

\* Witness of C4: setVisibility(false) has been called while this.visible was
\* false.
SecondHideReturned ==
    /\ pc = "idle"
    /\ lastCall.made /\ lastCall.arg = "false" /\ lastCall.was = "false"

\* C5 as stated: when the key is absent and the fetch has resolved, the call
\* setVisibility of the fetch leaves this.visible true and the panel shown.
DefaultOnAbsentKey ==
    (/\ pc = "idle"
     /\ fetchState = "done" /\ fetchValue = "undefined"
     /\ lastCall.made /\ lastCall.arg = "undefined" /\ lastCall.was = "true")
    => /\ visible = "true"
       /\ sidebarArea /\ hideButton /\ ~showButton

\* C6: when a call setVisibility(v) with v different from this.visible has
\* returned, the area and the hide button carry "visible" iff v, the show
\* button iff not v, this.visible is v, and the call has issued exactly one
\* setKey, of v, which stored v.
ChangingCallEffect ==
    /\ [](pc = "idle" /\ lastCall.made /\ lastCall.arg # lastCall.was =>
             /\ sidebarArea = Truthy(lastCall.arg)
             /\ hideButton = Truthy(lastCall.arg)
             /\ showButton = ~Truthy(lastCall.arg)
             /\ visible = lastCall.arg
             /\ lastCall.toggles = 3
             /\ lastCall.written = <<lastCall.arg>>)
    /\ [][Len(lastCall'.written) > Len(lastCall.written) =>
             stored' = lastCall'.arg]_vars

\* Witness of C6 (scenario B): the panel was open and setVisibility(false) has
\* returned.
HiddenFromOpen ==
    /\ pc = "idle"
    /\ lastCall.made /\ lastCall.arg = "false" /\ lastCall.was = "true"
    /\ ~sidebarArea /\ ~hideButton /\ showButton
    /\ stored = "false"

\* No callback is pending: the fetch has resolved and every change
\* notification has been handled.
Quiescent == pc = "idle" /\ pending = <<>> /\ fetchState = "done"

\* C7: when no callback is pending, the stored value of sidebarVisible equals
\* this.visible.
AgreeAtQuiescence == Quiescent => stored = visible

\* Witness of C7: quiescent after a change from somewhere else to false has
\* been applied to the open panel.
QuiescentAfterChange ==
    /\ Quiescent
    /\ lastCall.arg = "false" /\ lastCall.was = "true"
    /\ lastCall.written = <<"false">>
    /\ visible = "false"

\* C8: no video is bound before the first show.bs.collapse; once the listener
\* of the first show.bs.collapse has run, every video has been bound exactly
\* once, with its src and loop = true; no video is ever bound twice.
LazyOneShot ==
    /\ \A i \in Clips : resolutions[i] <= 1
    /\ ~showDispatched =>
          \A i \in Clips : resolutions[i] = 0 /\ ~videos[i] /\ ~hasSrc[i]
    /\ showDispatched /\ pc # "init_loop" =>
          \A i \in Clips : resolutions[i] = 1 /\ videos[i] /\ hasSrc[i] /\ loop[i]

\* Witness of C8: show.bs.collapse has been dispatched again while a video
\* was playing, and every video is still bound once.
ShownAgainBoundOnce ==
    /\ pc = "idle"
    /\ steps = <<>>
    /\ Playing # {}
    /\ \A i \in Clips : resolutions[i] = 1

\* C9: when the slide listener returns, it has run, in this order, pause on
\* the last visible video i, currentTime = 0 on video e.to, play on video
\* e.to and lastVisibleVideo = e.to; video e.to plays at position 0,
\* lastVisibleVideo is e.to and, if i differs from e.to, video i is paused at
\* the position it had when the event came.
SlideChange ==
    [][pc = "slide_last" =>
          LET i == steps[1].clip
              k == to
          IN  /\ pc' = "idle"
              /\ Len(steps') = 4
              /\ steps'[1].op = "pause" /\ steps'[1].clip = lastVisibleVideo
              /\ steps'[2].op = "currentTime = 0" /\ steps'[2].clip = k
              /\ steps'[3].op = "play" /\ steps'[3].clip = k
              /\ steps'[4].op = "lastVisibleVideo =" /\ steps'[4].clip = k
              /\ playing'[k] /\ currentTime'[k] = 0
              /\ lastVisibleVideo' = k
              /\ i # k => ~playing'[i] /\ currentTime'[i] = steps[1].at]_vars

\* Witness of C9: the slide listener has returned after moving from a video
\* that was playing, past its start, to another one.
SlidFromPlaying ==
    /\ pc = "idle"
    /\ Len(steps) = 4
    /\ steps[1].on /\ steps[1].at > 0
    /\ steps[1].clip # lastVisibleVideo
    /\ currentTime[steps[1].clip] = steps[1].at

\* C10: lastVisibleVideo is 0 until a slide has been handled; the shown
\* listener sets the position of the last visible video to 0 and plays it,
\* wherever it was paused; the hidden listener pauses it and leaves every
\* position as it is.
ShowHideShow ==
    /\ []((\A i \in Clips : ~videos[i]) => lastVisibleVideo = 0)
    /\ [][pc = "shown_play" =>
             /\ pc' = "idle"
             /\ playing'[lastVisibleVideo]
             /\ currentTime'[lastVisibleVideo] = 0
             /\ lastVisibleVideo' = lastVisibleVideo]_vars
    /\ [][pc = "idle" /\ pc' = "idle" /\ steps' # steps /\ Len(steps') = 1
             /\ steps'[1].op = "pause" =>
             /\ ~playing'[lastVisibleVideo]
             /\ currentTime' = currentTime
             /\ lastVisibleVideo' = lastVisibleVideo]_vars

\* Witness of C10: the shown listener has returned; video 0 was paused past
\* its start when the event came and now plays from position 0.
RestartedFromStart ==
    /\ pc = "idle"
    /\ Len(steps) = 2
    /\ steps[1].op = "currentTime = 0" /\ steps[1].clip = 0
    /\ ~steps[1].on /\ steps[1].at > 0
    /\ lastVisibleVideo = 0
    /\ playing[0] /\ currentTime[0] = 0

\* C11 as stated: when a call setVisibility(false) that hides the panel
\* returns, no video is playing.
NoPlaybackAfterHide ==
    [][pc = "sv_setKey" /\ visibleArg = "false" => Playing' = {}]_vars

\* C12: between two listeners, while the introduction tab is open (a
\* shown.bs.collapse has been handled and no hidden.bs.collapse since), the
\* video that is playing is exactly videos[lastVisibleVideo].
CurrentClipPlays ==
    pc = "idle" /\ tab = "shown" => Playing = {lastVisibleVideo}

\* Witness of C12: the tab is open and a slide listener has moved playback
\* from another video to video 2.
OpenTabPlaysSlide ==
    /\ pc = "idle"
    /\ tab = "shown"
    /\ Len(steps) = 4
    /\ steps[1].clip # 2
    /\ lastVisibleVideo = 2
    /\ Playing = {2}

\* C13 as stated: when the shown listener returns, the video that is playing
\* is video 0.
ShownPlaysFirstClip ==
    [][pc = "shown_play" => Playing' = {0}]_vars

\* C13 amended: every shown.bs.collapse runs the shown listener to its end,
\* and when it returns the video that is playing is videos[lastVisibleVideo],
\* where lastVisibleVideo is e.to of the latest slide (0 before any slide) and
\* is not changed by the listener.
ShownPlaysCurrentClip ==
    /\ [](pc = "idle" => lastVisibleVideo = to)
    /\ [][pc = "idle" /\ tab = "showing" /\ tab' = "shown" =>
             pc' = "shown_play"]_vars
    /\ [][pc = "shown_play" =>
             /\ pc' = "idle"
             /\ tab' = "shown"
             /\ Playing' = {lastVisibleVideo}
             /\ lastVisibleVideo' = lastVisibleVideo]_vars

\* Witness of C13: the shown listener has returned with video 2, the last
\* visible one, playing.
ShownPlayedSlide ==
    /\ pc = "idle"
    /\ tab = "shown"
    /\ Len(steps) = 2
    /\ steps[2].op = "play"
    /\ lastVisibleVideo = 2
    /\ Playing = {2}

\* C14 as stated: between two listeners, while the introduction tab is hidden
\* (hidden.bs.collapse was the latest collapse event, or none came yet), no
\* video is playing.
HiddenTabSilent ==
    pc = "idle" /\ tab = "hidden" => Playing = {}

\* The step of the hidden listener, which is a single statement.
HiddenListenerStep ==
    /\ pc = "idle" /\ pc' = "idle"
    /\ tab' = "hidden"
    /\ steps' # steps
    /\ Len(steps') = 1
    /\ steps'[1].op \in {"pause", "TypeError"}

\* C15 as stated, for the case it names: when hidden.bs.collapse is handled
\* before any video has been bound (so that none has been started), the
\* listener raises no error and leaves the playing states and
\* lastVisibleVideo as they are.
HiddenBeforeBindingIsSafe ==
    [][HiddenListenerStep /\ (\A i \in Clips : ~videos[i]) =>
          /\ steps'[1].op # "TypeError"
          /\ playing' = playing
          /\ lastVisibleVideo' = lastVisibleVideo]_vars

\* The onChange handler is called with the oldest pending notification.
NotificationDelivered ==
    /\ pc = "idle"
    /\ pending # <<>>
    /\ pending' = Tail(pending)

\* C16: when the notification of the write of the latest setVisibility call
\* is delivered next, the call of setVisibility it makes returns at the test
\* of line 61: no class is toggled, this.visible and the stored value stay,
\* no further setKey and no further notification is issued.
OwnNotificationIsNoOp ==
    [][/\ NotificationDelivered
       /\ lastCall.written = <<lastCall.arg>>
       /\ Head(pending) = lastCall.arg
       => /\ pc' = "idle"
          /\ lastCall'.toggles = 0
          /\ lastCall'.assigns = 0
          /\ lastCall'.written = <<>>
          /\ UNCHANGED <<visible, sidebarArea, hideButton, showButton, stored>>]_vars

\* Witness of C16: setVisibility(false) has hidden the open panel and written
\* false, and the notification of that write is the only one pending.
OwnNotificationPending ==
    /\ pc = "idle"
    /\ lastCall.made /\ lastCall.was = "true"
    /\ lastCall.written = <<"false">>
    /\ pending = <<"false">>
    /\ visible = "false" /\ stored = "false"

\* C17: every setKey of the panel is the setKey statement of a setVisibility
\* call that has just assigned the written value to this.visible, a value
\* different from the one before the call; every assignment to this.visible
\* is followed by that setKey; so each call has issued as many writes as
\* assignments when it returns, and none when its argument equals
\* this.visible.
WriteDiscipline ==
    /\ [][lastCall'.written # lastCall.written /\ lastCall'.written # <<>> =>
             /\ pc = "sv_setKey"
             /\ lastCall.assigns = 1
             /\ visible = visibleArg
             /\ visible # lastCall.was
             /\ lastCall'.written = <<visible>>
             /\ stored' = visible]_vars
    /\ [][visible' # visible =>
             /\ pc' = "sv_setKey"
             /\ visible' = visibleArg
             /\ lastCall'.assigns = 1]_vars
    /\ [](pc = "idle" => Len(lastCall.written) = lastCall.assigns)
    /\ [](pc = "idle" /\ lastCall.arg = lastCall.was => lastCall.written = <<>>)

\* Witness of C17: the fetch has delivered true to the open panel, no write
\* was issued, and the settings still hold true.
FetchDeliveredSameValue ==
    /\ pc = "idle"
    /\ fetchState = "done" /\ fetchValue = "true"
    /\ lastCall.made /\ lastCall.arg = "true" /\ lastCall.was = "true"
    /\ lastCall.written = <<>>
    /\ pending = <<>>
    /\ stored = "true"

\* C18 as stated, for a change made by the latest call: when the fetch
\* resolves after a call of setVisibility that changed the visibility, the
\* call it makes changes nothing.
FetchKeepsLaterChoice ==
    [][/\ fetchState = "replied" /\ fetchState' = "done"
       /\ lastCall.made /\ lastCall.assigns = 1
       => pc' = "idle"]_vars

\* C19 as stated: when the clicks come to an end, the panel reaches a state
\* between handlers with no notification pending and stays there (so that
\* only finitely many writes are issued).
QuiescenceAfterClicks ==
    \/ []<><<ClickShow \/ ClickHide>>_vars
    \/ <>[](pc = "idle" /\ pending = <<>>)

\* A statement of the shown listener or of the slide listener: the first one
\* of a listener that starts (the tab becomes shown, or e.to is a new slide),
\* or a later one.
ShownOrSlideStatement ==
    \/ pc = "idle" /\ tab' = "shown" /\ Len(steps') = 1 /\ steps' # steps
    \/ pc = "idle" /\ to' # to
    \/ pc \in {"shown_play", "slide_reset", "slide_play"}

====
